---- MODULE Spec2Model ----
(***************************************************************************)
(* FREDDataFetcher (src/src/fred_apis.py): parsing of Bruno request files,  *)
(* fetching and cleaning of FRED series, saving, and the sequential run of  *)
(* fetch_all_indicators.                                                    *)
(***************************************************************************)
EXTENDS Integers, Sequences, FiniteSets, TLC

VARIABLES
    ctor_key,         \* the api_key argument given to __init__
    api_key,          \* self.api_key
    bruno_dir_exists, \* bruno_path.exists()
    bruno_files,      \* list(bruno_path.glob("*.bru")), in enumeration order
    format,           \* the format argument of fetch_all_indicators
    pc,               \* position of the running call
    fi,               \* index of the Bruno file being processed (1-based)
    indicator_name,   \* indicator_name of the file being processed
    series_ids,       \* series_ids of the file being processed
    si,               \* index of the series being fetched (1-based)
    indicator_data,   \* indicator_data of the file being processed
    all_data,         \* all_data: insertion-ordered dict, as a sequence of items
    calls,            \* number of requests.get calls issued
    sleeps,           \* number of time.sleep(delay) calls made
    inflight,         \* number of requests issued and not yet answered
    fetchLog,         \* the requests issued: file, series id, api_key parameter
    resultLog,        \* what fetch_series_data returned for each request
    producedLog,      \* the per-indicator datasets built, one per file that built one
    saveLog,          \* the save_data calls made: data, filename, format, outcome
    disk,             \* the files of data_dir: path -> rows written
    parseLog,         \* the Bruno files parsed so far
    key_writes,       \* number of assignments to self.api_key by parse_bruno_file
    direct_input      \* the response met by a direct fetch_series_data call

vars == <<ctor_key, api_key, bruno_dir_exists, bruno_files, format, pc, fi,
          indicator_name, series_ids, si, indicator_data, all_data, calls, sleeps,
          inflight, fetchLog, resultLog, producedLog, saveLog, disk, parseLog,
          key_writes, direct_input>>

\* ------------------------------------------------------------------ bounds
MaxFiles == 2   \* Bruno files in the directory
MaxObs   == 3   \* observations in one response (direct fetch_series_data calls)
MaxParse == 3   \* direct parse_bruno_file calls
MaxSaves == 2   \* direct save_data calls

\* ------------------------------------------------------------ Python values
None == "<None>"                       \* Python's None, where a string may stand
Truthy(s) == s # None /\ s # ""        \* bool(s) for s: Optional[str]
NaN == -1                              \* float NaN (numeric values are >= 0)

NoneResult == [kind |-> "None", rows |-> <<>>]
DataFrame(rows) == [kind |-> "df", rows |-> rows]
Raised == [kind |-> "raise", rows |-> <<>>]   \* an exception leaving the call

\* the elements of a sequence, and sequence concatenation of a sequence of sequences
Range(s) == {s[i] : i \in 1..Len(s)}
RECURSIVE Flatten(_)
Flatten(ss) == IF ss = <<>> THEN <<>> ELSE Head(ss) \o Flatten(Tail(ss))

\* --------------------------------------------------------- series_mappings
series_mappings ==
    [n \in {"CPI data", "GDP data", "UNRATE data", "Interest Rate data",
            "Consumer Confidence data", "Housing Starts data", "Trade Balance data",
            "Current Account data", "Government Debt & Budget Deficit data",
            "PPI data", "PPI Gold Ore data", "Crude Oil data", "S&P 500 data",
            "Dow Jones Industrial Average data", "NASDAQ Composite data",
            "Currency Conversions data"} |->
       CASE n = "CPI data" -> <<"CPIAUCSL", "CPALTT01USM657N">>
         [] n = "GDP data" -> <<"GDP", "GDPC1">>
         [] n = "UNRATE data" -> <<"UNRATE">>
         [] n = "Interest Rate data" -> <<"INTDSRUSM193", "FEDFUNDS", "DGS10">>
         [] n = "Consumer Confidence data" -> <<"UMCSENT">>
         [] n = "Housing Starts data" -> <<"HOUST">>
         [] n = "Trade Balance data" -> <<"BOPGSTB">>
         [] n = "Current Account data" -> <<"NETEXP">>
         [] n = "Government Debt & Budget Deficit data" -> <<"GFDEGDQ188S", "FYFSGDA188S">>
         [] n = "PPI data" -> <<"PPIACO">>
         [] n = "PPI Gold Ore data" -> <<"PCU2122212122">>
         [] n = "Crude Oil data" -> <<"DCOILWTICO">>
         [] n = "S&P 500 data" -> <<"SP500">>
         [] n = "Dow Jones Industrial Average data" -> <<"DJIA">>
         [] n = "NASDAQ Composite data" -> <<"NASDAQCOM">>
         [] OTHER -> <<"DEXUSEU", "DEXJPUS", "DEXUSUK">>]

\* self.series_mappings.get(indicator_name, [])
get_corrected_series_ids(name) ==
    IF name \in DOMAIN series_mappings THEN series_mappings[name] ELSE <<>>

\* -------------------------------------------------------------- Bruno files
\* A Bruno file, by what the four regular expressions of parse_bruno_file find in
\* it: "" where an expression has no match. stem is the file name without ".bru";
\* readable is FALSE when open/read raises.
BruFile(stem, readable, name, key, sid) ==
    [stem |-> stem, readable |-> readable, name |-> name,
     url |-> IF name = "" THEN "" ELSE "https://api.stlouisfed.org/fred/series/observations",
     api_key |-> key, series_id |-> sid]

BruFiles ==
    { BruFile("gdp", TRUE, "GDP data", "K1", "GDP"),
      BruFile("UNRATE data", TRUE, "", "", ""),
      BruFile("custom", TRUE, "Custom data", "K2", "XYZ"),
      BruFile("gdp_copy", TRUE, "GDP data", "K2", ""),
      BruFile("notes", TRUE, "Notes", "", ""),
      BruFile("broken", FALSE, "UNRATE data", "K1", "UNRATE") }

\* directory listings: the files of a directory have distinct names
Listings ==
    { l \in UNION {[1..n -> BruFiles] : n \in 0..MaxFiles} :
        \A i, j \in DOMAIN l : i # j => l[i].stem # l[j].stem }

EmptyConfig == [name |-> "", url |-> "", series_id |-> "", api_key |-> ""]

\* the config parse_bruno_file returns
ParseConfig(file) ==
    IF file.readable
    THEN [name |-> file.name, url |-> file.url,
          series_id |-> file.series_id, api_key |-> file.api_key]
    ELSE EmptyConfig

\* whether parse_bruno_file assigns self.api_key (line 99), given self.api_key before
KeyAssignedNoGuard(key, file) == file.readable /\ file.api_key # ""

KeyAssigned(key, file) == file.readable /\ file.api_key # "" /\ ~Truthy(key)

\* self.api_key after parse_bruno_file
KeyAfterParse(key, file) == IF KeyAssigned(key, file) THEN file.api_key ELSE key

\* indicator_name = config['name'] or bruno_file.stem
IndicatorName(config, file) == IF config.name # "" THEN config.name ELSE file.stem

\* the series ids fetch_all_indicators fetches for a config; <<>> means: skip the file
ResolveEmbeddedFirst(config, name) ==
    IF config.series_id # "" THEN <<config.series_id>> ELSE get_corrected_series_ids(name)

ResolveSeriesIds(config, name) ==
    IF get_corrected_series_ids(name) # <<>> THEN get_corrected_series_ids(name)
    ELSE IF config.series_id # "" THEN <<config.series_id>>
    ELSE <<>>

\* re.sub(r'[^\w\-_]', '_', indicator_name.lower()), on the indicator names that occur
CleanFilename(name) ==
    CASE name = "GDP data" -> "gdp_data"
      [] name = "UNRATE data" -> "unrate_data"
      [] name = "Custom data" -> "custom_data"
      [] name = "Notes" -> "notes"
      [] name = "gdp" -> "gdp"
      [] name = "custom" -> "custom"
      [] name = "gdp_copy" -> "gdp_copy"
      [] name = "broken" -> "broken"
      [] OTHER -> "_"

\* ------------------------------------------------------- fetch_series_data
RawDates == {"2020-01-01", "2020-02-01", "not-a-date"}
RawValues == {"5", "7", "."}

\* pd.to_datetime of one date string; 0 stands for the exception it raises
ToDatetime(s) ==
    CASE s = "2020-01-01" -> 1
      [] s = "2020-02-01" -> 2
      [] s = "2020-03-01" -> 3
      [] OTHER -> 0

\* pd.to_numeric(errors='coerce') of one value string
ToNumeric(s) ==
    CASE s = "5" -> 5
      [] s = "7" -> 7
      [] OTHER -> NaN

RawObs(d, v) == [date |-> d, value |-> v]

\* what requests.get / raise_for_status / response.json deliver
TransportError == [status |-> "error", has_observations |-> FALSE, observations |-> <<>>]
PayloadWithout == [status |-> "ok", has_observations |-> FALSE, observations |-> <<>>]
Payload(obs) == [status |-> "ok", has_observations |-> TRUE, observations |-> obs]

\* df['date'] = pd.to_datetime(df['date']); df['value'] = pd.to_numeric(...)
Convert(obs) == [i \in 1..Len(obs) |->
                   [date |-> ToDatetime(obs[i].date), value |-> ToNumeric(obs[i].value)]]

\* df.dropna(subset=['value'])
KeepAll(rows) == rows

DropNa(rows) == SelectSeq(rows, LAMBDA r : r.value # NaN)

\* the orders of rows that are ascending by date
Orderings(rows) ==
    { p \in [1..Len(rows) -> 1..Len(rows)] :
        /\ \A i, j \in 1..Len(rows) : i # j => p[i] # p[j]
        /\ \A i, j \in 1..Len(rows) : i < j => rows[p[i]].date <= rows[p[j]].date }

\* df.sort_values('date'): kind defaults to 'quicksort', which is not stable, so
\* rows of equal date come out in any order
Unsorted(rows) == {rows}

SortValues(rows) == { [i \in 1..Len(rows) |-> rows[p[i]]] : p \in Orderings(rows) }

\* df['series_id'] = series_id; df['fetched_at'] = datetime.now()
Stamp(rows, series_id, now) ==
    [i \in 1..Len(rows) |->
       [date |-> rows[i].date, value |-> rows[i].value,
        series_id |-> series_id, fetched_at |-> now]]

\* the body of the try block: the value returned, or Raised
TryFetch(resp, series_id, now) ==
    IF resp.status = "error" THEN {Raised}
    ELSE IF ~resp.has_observations THEN {NoneResult}
    ELSE IF resp.observations = <<>> THEN {NoneResult}
    ELSE IF \E i \in 1..Len(resp.observations) : ToDatetime(resp.observations[i].date) = 0
         THEN {Raised}
    ELSE { DataFrame(Stamp(s, series_id, now)) :
             s \in SortValues(DropNa(Convert(resp.observations))) }

\* the values fetch_series_data can return (both except clauses return None)
FetchUncaught(resp, series_id, now) == TryFetch(resp, series_id, now)

FetchSeriesData(resp, series_id, now) ==
    { IF r.kind = "raise" THEN NoneResult ELSE r : r \in TryFetch(resp, series_id, now) }

\* params['api_key'] of the request
RequestKeyOfFile(key, file) == IF file.readable /\ file.api_key # "" THEN file.api_key ELSE None

RequestKey(key, file) == key

\* ---------------------------------------------------------------- save_data
SupportedFormats == {"csv", "json", "parquet"}
Formats == SupportedFormats \cup {"xml"}

\* file_path = self.data_dir / f"{filename}.{format}"
FilePath(filename, fmt) == <<filename, fmt>>

\* whether the try block of save_data raises: the else branch's ValueError, or an
\* error of the writer
SaveRaises(fmt, io_ok) == fmt \notin SupportedFormats \/ ~io_ok

\* how save_data ends for its caller: "returned", or "raised" when an exception leaves it
SaveEnds(fmt, io_ok) == "returned"

\* the record of one save_data call
SaveCall(data, filename, fmt, io_ok) ==
    [data |-> data, filename |-> filename, format |-> fmt,
     written |-> ~SaveRaises(fmt, io_ok),
     logged |-> IF SaveRaises(fmt, io_ok) THEN "error" ELSE "info",
     outcome |-> SaveEnds(fmt, io_ok)]

\* data_dir after the call
DiskAfterSave(d, call) ==
    IF call.written
    THEN (FilePath(call.filename, call.format) :> call.data) @@ d
    ELSE d

\* ------------------------------------------------------ fetch_all_indicators
\* all_data[name] = df on an insertion-ordered dict
DictAppend(d, name, df) == Append(d, [indicator |-> name, df |-> df])

DictSet(d, name, df) ==
    IF \E i \in 1..Len(d) : d[i].indicator = name
    THEN [i \in 1..Len(d) |-> IF d[i].indicator = name
                              THEN [indicator |-> name, df |-> df] ELSE d[i]]
    ELSE Append(d, [indicator |-> name, df |-> df])

\* pd.concat(indicator_data, ignore_index=True), or indicator_data[0]
Concat(dfs) == Flatten(dfs)

\* df_copy = df.copy(); df_copy['indicator'] = indicator
Tag(rows, name) ==
    [i \in 1..Len(rows) |->
       [date |-> rows[i].date, value |-> rows[i].value, series_id |-> rows[i].series_id,
        fetched_at |-> rows[i].fetched_at, indicator |-> name]]

\* master_df: the tagged copies of all_data.items(), concatenated
MasterDf(d) == Flatten([i \in 1..Len(d) |-> Tag(d[i].df, d[i].indicator)])

\* datetime.now(), as a logical clock
Now == calls + sleeps

\* the responses the series client meets during a run
StubResponses ==
    { TransportError,
      PayloadWithout,
      Payload(<<>>),
      Payload(<<RawObs("not-a-date", "5")>>),
      Payload(<<RawObs("2020-01-01", ".")>>),
      Payload(<<RawObs("2020-02-01", "7"), RawObs("2020-01-01", "."),
                RawObs("2020-01-01", "5")>>) }

\* the api_key arguments of __init__; the format arguments of a run
CtorKeys == {None, "", "K0"}
RunCtorKeys == {None, "K0"}
RunFormats == {"csv", "xml"}

InitCommon ==
    /\ ctor_key \in CtorKeys
    /\ api_key = ctor_key
    /\ pc = "idle"
    /\ fi = 0
    /\ indicator_name = ""
    /\ series_ids = <<>>
    /\ si = 0
    /\ indicator_data = <<>>
    /\ all_data = <<>>
    /\ calls = 0
    /\ sleeps = 0
    /\ inflight = 0
    /\ fetchLog = <<>>
    /\ resultLog = <<>>
    /\ producedLog = <<>>
    /\ saveLog = <<>>
    /\ disk = <<>>
    /\ parseLog = <<>>
    /\ key_writes = 0
    /\ direct_input = <<>>

Init ==
    /\ InitCommon
    /\ ctor_key \in RunCtorKeys
    /\ bruno_dir_exists \in BOOLEAN
    /\ bruno_files \in IF bruno_dir_exists THEN Listings ELSE {<<>>}
    /\ format \in RunFormats

\* lines 228-236: the directory check and the listing
StartRun ==
    /\ pc = "idle"
    /\ bruno_dir_exists
    /\ pc' = "next_file"
    /\ fi' = 1
    /\ UNCHANGED <<ctor_key, api_key, bruno_dir_exists, bruno_files, format,
                   indicator_name, series_ids, si, indicator_data, all_data, calls,
                   sleeps, inflight, fetchLog, resultLog, producedLog, saveLog, disk,
                   parseLog, key_writes, direct_input>>

\* lines 229-231: return {} when the directory does not exist
MissingDir ==
    /\ pc = "idle"
    /\ ~bruno_dir_exists
    /\ pc' = "done"
    /\ UNCHANGED <<ctor_key, api_key, bruno_dir_exists, bruno_files, format, fi,
                   indicator_name, series_ids, si, indicator_data, all_data, calls,
                   sleeps, inflight, fetchLog, resultLog, producedLog, saveLog, disk,
                   parseLog, key_writes, direct_input>>

\* the effect of parse_bruno_file(file) on the fetcher
ParseEffect(file) ==
    /\ api_key' = KeyAfterParse(api_key, file)
    /\ key_writes' = IF KeyAssigned(api_key, file) THEN key_writes + 1 ELSE key_writes
    /\ parseLog' = Append(parseLog, file)

\* lines 238-257: parse the next file and resolve its series; series found
ParseFile ==
    /\ pc = "next_file"
    /\ fi <= Len(bruno_files)
    /\ LET file == bruno_files[fi]
           config == ParseConfig(file)
           name == IndicatorName(config, file)
           ids == ResolveSeriesIds(config, name)
       IN /\ ids # <<>>
          /\ ParseEffect(file)
          /\ indicator_name' = name
          /\ series_ids' = ids
          /\ si' = 1
          /\ indicator_data' = <<>>
          /\ pc' = "fetch"
    /\ UNCHANGED <<ctor_key, bruno_dir_exists, bruno_files, format, fi, all_data, calls,
                   sleeps, inflight, fetchLog, resultLog, producedLog, saveLog, disk,
                   direct_input>>

\* lines 238-254: parse the next file; no series id: warn and continue
SkipFile ==
    /\ pc = "next_file"
    /\ fi <= Len(bruno_files)
    /\ LET file == bruno_files[fi]
           config == ParseConfig(file)
           name == IndicatorName(config, file)
       IN /\ ResolveSeriesIds(config, name) = <<>>
          /\ ParseEffect(file)
          /\ indicator_name' = name
    /\ fi' = fi + 1
    /\ UNCHANGED <<ctor_key, bruno_dir_exists, bruno_files, format, pc, series_ids, si,
                   indicator_data, all_data, calls, sleeps, inflight, fetchLog,
                   resultLog, producedLog, saveLog, disk, direct_input>>

\* lines 139-149: build the parameters and issue requests.get
IssueRequest ==
    /\ pc = "fetch"
    /\ calls' = calls + 1
    /\ inflight' = inflight + 1
    /\ fetchLog' = Append(fetchLog, [file |-> fi, series_id |-> series_ids[si],
                                      api_key |-> RequestKey(api_key, bruno_files[fi])])
    /\ pc' = "await"
    /\ UNCHANGED <<ctor_key, api_key, bruno_dir_exists, bruno_files, format, fi,
                   indicator_name, series_ids, si, indicator_data, all_data, sleeps,
                   resultLog, producedLog, saveLog, disk, parseLog, key_writes, direct_input>>

\* lines 149-184 and 260-261: the response arrives, fetch_series_data returns
ReceiveNoSleepOnFailure ==
    /\ pc = "await"
    /\ \E resp \in StubResponses :
         \E df \in FetchSeriesData(resp, series_ids[si], Now) :
            /\ resultLog' = Append(resultLog, [file |-> fi, series_id |-> series_ids[si],
                                                kind |-> df.kind, rows |-> df.rows])
            /\ indicator_data' = IF df.kind = "df" THEN Append(indicator_data, df.rows)
                                 ELSE indicator_data
            /\ pc' = IF df.kind = "df" THEN "sleep"
                     ELSE IF si < Len(series_ids) THEN "fetch" ELSE "finish_indicator"
            /\ si' = IF df.kind = "df" THEN si ELSE si + 1
    /\ inflight' = inflight - 1
    /\ UNCHANGED <<ctor_key, api_key, bruno_dir_exists, bruno_files, format, fi,
                   indicator_name, series_ids, all_data, calls, sleeps, fetchLog,
                   producedLog, saveLog, disk, parseLog, key_writes, direct_input>>

ReceiveResponse ==
    /\ pc = "await"
    /\ \E resp \in StubResponses :
         \E df \in FetchSeriesData(resp, series_ids[si], Now) :
            /\ resultLog' = Append(resultLog, [file |-> fi, series_id |-> series_ids[si],
                                                kind |-> df.kind, rows |-> df.rows])
            /\ indicator_data' = IF df.kind = "df" THEN Append(indicator_data, df.rows)
                                 ELSE indicator_data
            /\ pc' = IF df.kind = "raise" THEN "aborted" ELSE "sleep"
    /\ inflight' = inflight - 1
    /\ UNCHANGED <<ctor_key, api_key, bruno_dir_exists, bruno_files, format, fi,
                   indicator_name, series_ids, si, all_data, calls, sleeps, fetchLog,
                   producedLog, saveLog, disk, parseLog, key_writes, direct_input>>

\* line 264: time.sleep(delay), then the next series or the end of the inner loop
Sleep ==
    /\ pc = "sleep"
    /\ sleeps' = sleeps + 1
    /\ IF si < Len(series_ids)
       THEN si' = si + 1 /\ pc' = "fetch"
       ELSE si' = si /\ pc' = "finish_indicator"
    /\ UNCHANGED <<ctor_key, api_key, bruno_dir_exists, bruno_files, format, fi,
                   indicator_name, series_ids, indicator_data, all_data, calls, inflight,
                   fetchLog, resultLog, producedLog, saveLog, disk, parseLog, key_writes, direct_input>>

\* lines 266-277: combine the series of the indicator, record and save them
SaveIndicator ==
    /\ pc = "finish_indicator"
    /\ indicator_data # <<>>
    /\ \E io_ok \in BOOLEAN :
         LET combined_df == Concat(indicator_data)
             call == SaveCall(combined_df, CleanFilename(indicator_name), format, io_ok)
         IN /\ all_data' = DictSet(all_data, indicator_name, combined_df)
            /\ producedLog' = Append(producedLog, [file |-> fi, indicator |-> indicator_name,
                                                    df |-> combined_df])
            /\ saveLog' = Append(saveLog, call)
            /\ disk' = DiskAfterSave(disk, call)
            /\ IF call.outcome = "raised"
               THEN pc' = "aborted" /\ fi' = fi
               ELSE pc' = "next_file" /\ fi' = fi + 1
    /\ UNCHANGED <<ctor_key, api_key, bruno_dir_exists, bruno_files, format,
                   indicator_name, series_ids, si, indicator_data, calls, sleeps,
                   inflight, fetchLog, resultLog, parseLog, key_writes, direct_input>>

\* lines 279-280: no data fetched for the indicator
NoIndicatorData ==
    /\ pc = "finish_indicator"
    /\ indicator_data = <<>>
    /\ pc' = "next_file"
    /\ fi' = fi + 1
    /\ UNCHANGED <<ctor_key, api_key, bruno_dir_exists, bruno_files, format,
                   indicator_name, series_ids, si, indicator_data, all_data, calls,
                   sleeps, inflight, fetchLog, resultLog, producedLog, saveLog, disk,
                   parseLog, key_writes, direct_input>>

\* lines 282-296: all files processed; save the combined dataset and return all_data
SaveCombined ==
    /\ pc = "next_file"
    /\ fi > Len(bruno_files)
    /\ all_data # <<>>
    /\ \E io_ok \in BOOLEAN :
         LET call == SaveCall(MasterDf(all_data), "all_economic_indicators", format, io_ok)
         IN /\ saveLog' = Append(saveLog, call)
            /\ disk' = DiskAfterSave(disk, call)
            /\ pc' = IF call.outcome = "raised" THEN "aborted" ELSE "done"
    /\ UNCHANGED <<ctor_key, api_key, bruno_dir_exists, bruno_files, format, fi,
                   indicator_name, series_ids, si, indicator_data, all_data, calls,
                   sleeps, inflight, fetchLog, resultLog, producedLog, parseLog,
                   key_writes, direct_input>>

\* lines 283, 295-296: all files processed and all_data is empty
ReturnEmpty ==
    /\ pc = "next_file"
    /\ fi > Len(bruno_files)
    /\ all_data = <<>>
    /\ pc' = "done"
    /\ UNCHANGED <<ctor_key, api_key, bruno_dir_exists, bruno_files, format, fi,
                   indicator_name, series_ids, si, indicator_data, all_data, calls,
                   sleeps, inflight, fetchLog, resultLog, producedLog, saveLog, disk,
                   parseLog, key_writes, direct_input>>

Next ==
    \/ StartRun
    \/ MissingDir
    \/ ParseFile
    \/ SkipFile
    \/ IssueRequest
    \/ ReceiveResponse
    \/ Sleep
    \/ SaveIndicator
    \/ NoIndicatorData
    \/ SaveCombined
    \/ ReturnEmpty

Spec == Init /\ [][Next]_vars

\* ------------------------------------------------------------ direct calls
\* the fetcher right after construction, no run started
InitDirect ==
    /\ InitCommon
    /\ bruno_dir_exists = FALSE
    /\ bruno_files = <<>>
    /\ format = "csv"

\* parse_bruno_file(file_path), called on any file
ParseCall ==
    /\ pc = "idle"
    /\ Len(parseLog) < MaxParse
    /\ \E file \in BruFiles : ParseEffect(file)
    /\ UNCHANGED <<ctor_key, bruno_dir_exists, bruno_files, format, pc, fi,
                   indicator_name, series_ids, si, indicator_data, all_data, calls,
                   sleeps, inflight, fetchLog, resultLog, producedLog, saveLog, disk,
                   direct_input>>

SpecParse == InitDirect /\ [][ParseCall]_vars

\* the observation lists of a response
ObsLists == UNION {[1..n -> {RawObs(d, v) : d \in RawDates, v \in RawValues}] : n \in 0..MaxObs}
Responses == {TransportError, PayloadWithout} \cup {Payload(obs) : obs \in ObsLists}

\* fetch_series_data(series_id), called once
FetchCall ==
    /\ pc = "idle"
    /\ calls = 0
    /\ \E series_id \in {"GDP"}, resp \in Responses :
         \E df \in FetchSeriesData(resp, series_id, Now) :
            /\ direct_input' = resp
            /\ fetchLog' = Append(fetchLog, [file |-> 0, series_id |-> series_id,
                                              api_key |-> api_key])
            /\ resultLog' = Append(resultLog, [file |-> 0, series_id |-> series_id,
                                                kind |-> df.kind, rows |-> df.rows])
    /\ calls' = calls + 1
    /\ UNCHANGED <<ctor_key, api_key, bruno_dir_exists, bruno_files, format, pc, fi,
                   indicator_name, series_ids, si, indicator_data, all_data, sleeps,
                   inflight, producedLog, saveLog, disk, parseLog, key_writes>>

SpecFetch == InitDirect /\ [][FetchCall]_vars

\* the datasets and file names of direct save_data calls
SaveDatasets ==
    { <<>>,
      Stamp(<<[date |-> 1, value |-> 5]>>, "GDP", 1),
      Stamp(<<[date |-> 1, value |-> 5], [date |-> 2, value |-> 7]>>, "GDP", 1) }
SaveFilenames == {"gdp_example", "gdp_data"}

\* save_data(data, filename, format), called on any dataset
SaveDataCall ==
    /\ pc = "idle"
    /\ Len(saveLog) < MaxSaves
    /\ \E data \in SaveDatasets, filename \in SaveFilenames, fmt \in Formats,
          io_ok \in BOOLEAN :
         LET call == SaveCall(data, filename, fmt, io_ok)
         IN /\ saveLog' = Append(saveLog, call)
            /\ disk' = DiskAfterSave(disk, call)
    /\ UNCHANGED <<ctor_key, api_key, bruno_dir_exists, bruno_files, format, pc, fi,
                   indicator_name, series_ids, si, indicator_data, all_data, calls,
                   sleeps, inflight, fetchLog, resultLog, producedLog, parseLog,
                   key_writes, direct_input>>

SpecSave == InitDirect /\ [][SaveDataCall]_vars

\* ------------------------------------------------------------------ claims
Max(S) == CHOOSE x \in S : \A y \in S : y <= x
Count(s, x) == Cardinality({k \in 1..Len(s) : s[k] = x})
IsPermutation(a, b) ==
    /\ Len(a) = Len(b)
    /\ \A x \in Range(a) \cup Range(b) : Count(a, x) = Count(b, x)
DateValue(rows) == [k \in 1..Len(rows) |-> [date |-> rows[k].date, value |-> rows[k].value]]
SeriesIdsOf(log) == [k \in 1..Len(log) |-> log[k].series_id]
RowsOf(log) == Flatten([k \in 1..Len(log) |-> log[k].rows])

\* the files whose processing has ended
CompletedFiles == {i \in 1..Len(bruno_files) : i < fi}
\* the display name of a file: the parsed name, or the base name of the file
DisplayName(file) == IF file.readable /\ file.name # "" THEN file.name ELSE file.stem
\* the series ids the claim expects for a file
ExpectedIds(file) ==
    LET name == DisplayName(file)
        listed == IF name \in DOMAIN series_mappings THEN series_mappings[name] ELSE <<>>
        embedded == IF file.readable THEN file.series_id ELSE ""
    IN IF listed # <<>> THEN listed
       ELSE IF embedded # "" THEN <<embedded>>
       ELSE <<>>
FetchesOf(i) == SelectSeq(fetchLog, LAMBDA e : e.file = i)
ResultsOf(i) == SelectSeq(resultLog, LAMBDA e : e.file = i)
SucceededOf(i) == SelectSeq(resultLog, LAMBDA e : e.file = i /\ e.kind = "df")
FailedOf(i) == SelectSeq(resultLog, LAMBDA e : e.file = i /\ e.kind # "df")
ProducedOf(i) == SelectSeq(producedLog, LAMBDA e : e.file = i)
ProducedNamed(name) == {k \in 1..Len(producedLog) : producedLog[k].indicator = name}
SavesNamed(filename) == {k \in 1..Len(saveLog) : saveLog[k].filename = filename}

\* ---- C1
\* C1 (as claimed): every save_data call with a format outside csv/json/parquet ends
\* in a failure its caller sees, and writes no file.
C1_UnsupportedFormatRaises ==
    \A k \in 1..Len(saveLog) :
        saveLog[k].format \notin SupportedFormats =>
            saveLog[k].outcome = "raised" /\ ~saveLog[k].written

\* ---- C2
C2_NeverAborts == pc # "aborted"
C2_FetchedOnce ==
    \A i \in CompletedFiles :
        LET fetches == SeriesIdsOf(FetchesOf(i))
            results == SeriesIdsOf(ResultsOf(i))
        IN \A sid \in Range(ExpectedIds(bruno_files[i])) :
              Count(fetches, sid) = 1 /\ Count(results, sid) = 1
C2_FailingContributesNothing ==
    \A i \in CompletedFiles :
        LET failed == FailedOf(i)
            produced == RowsOf([k \in 1..Len(ProducedOf(i)) |-> [rows |-> ProducedOf(i)[k].df]])
        IN \A k \in 1..Len(failed) :
              /\ failed[k].rows = <<>>
              /\ \A r \in Range(produced) : r.series_id # failed[k].series_id
\* the dataset of the succeeded series of file i was handed to save_data
C2_HandedToPersister ==
    \A i \in CompletedFiles :
        LET succeeded == SucceededOf(i)
        IN succeeded # <<>> =>
              \E k \in SavesNamed(CleanFilename(DisplayName(bruno_files[i]))) :
                  saveLog[k].data = RowsOf(succeeded)
\* every row of a succeeded fetch is in the mapping under its file's display name
\* (runs in which some cleaned dataset is empty are C3's matter and left aside)
C2_SucceededReturned ==
    (pc = "done" /\ \A k \in 1..Len(resultLog) :
                       resultLog[k].kind = "df" => resultLog[k].rows # <<>>) =>
        \A k \in 1..Len(resultLog) :
            \A r \in Range(resultLog[k].rows) :
                \E j \in 1..Len(all_data) :
                    /\ all_data[j].indicator = DisplayName(bruno_files[resultLog[k].file])
                    /\ \E q \in Range(all_data[j].df) :
                          /\ q.series_id = r.series_id
                          /\ q.date = r.date
                          /\ q.value = r.value

\* C2 (as claimed): whatever the outcomes of the fetches, the run never aborts, every
\* resolved series id of every file is fetched exactly once, a failing series
\* contributes no rows, and the datasets of the series that succeeded are returned
\* and persisted.
C2_SucceededReturnedAndPersisted ==
    /\ C2_NeverAborts
    /\ C2_FetchedOnce
    /\ C2_FailingContributesNothing
    /\ C2_HandedToPersister
    /\ C2_SucceededReturned

\* C2 (amended): as claimed, except that a dataset is returned under its display name
\* only until a later file of the same display name produces one: when a file's
\* processing ends, the dataset of its succeeded series is the one handed to
\* save_data and stored in the mapping, and the mapping holds for each display name
\* the dataset of the last file of that name that produced one.
C2_RunSurvivesFailures ==
    /\ C2_NeverAborts
    /\ C2_FetchedOnce
    /\ C2_FailingContributesNothing
    /\ C2_HandedToPersister
    /\ \A i \in CompletedFiles :
          LET succeeded == SucceededOf(i)
              produced == ProducedOf(i)
          IN IF succeeded = <<>> THEN produced = <<>>
             ELSE /\ Len(produced) = 1
                  /\ produced[1].df = RowsOf(succeeded)
                  /\ produced[1].indicator = DisplayName(bruno_files[i])
    /\ {all_data[j].indicator : j \in 1..Len(all_data)}
         = {producedLog[k].indicator : k \in 1..Len(producedLog)}
    /\ \A j \in 1..Len(all_data) :
          all_data[j].df = producedLog[Max(ProducedNamed(all_data[j].indicator))].df

\* a finished run of two files in which one series failed and another delivered rows
C2_Witness ==
    /\ pc = "done"
    /\ Len(bruno_files) = 2
    /\ \E k \in 1..Len(resultLog) : resultLog[k].kind = "None" /\ resultLog[k].file = 1
    /\ \E k \in 1..Len(resultLog) : resultLog[k].rows # <<>> /\ resultLog[k].file = 2
    /\ \E k \in 1..Len(saveLog) : saveLog[k].written

\* ---- C3
\* C3 (as claimed): a dataset that is empty after cleaning is nothing to persist: no
\* per-indicator dataset built, stored in the mapping or handed to save_data is empty.
C3_EmptyIsNotPersisted ==
    /\ \A k \in 1..Len(producedLog) : producedLog[k].df # <<>>
    /\ \A j \in 1..Len(all_data) : all_data[j].df # <<>>
    /\ \A k \in 1..Len(saveLog) : saveLog[k].data # <<>>

\* ---- C4
\* C4: every row of every dataset handed to save_data has a numeric value and a
\* non-empty series id, the id of the request that fetched the row.
C4_PersistedRowsValid ==
    \A k \in 1..Len(saveLog) :
        \A r \in Range(saveLog[k].data) :
            /\ r.value # NaN
            /\ r.value \in {ToNumeric(v) : v \in RawValues \ {"."}}
            /\ r.series_id # ""
            /\ \E q \in 1..Len(resultLog) :
                  /\ resultLog[q].series_id = r.series_id
                  /\ fetchLog[q].series_id = r.series_id
                  /\ \E x \in Range(resultLog[q].rows) :
                        /\ x.date = r.date
                        /\ x.value = r.value
                        /\ x.fetched_at = r.fetched_at

\* a combined dataset was saved whose rows come from a response holding a "." value
C4_Witness ==
    \E k \in SavesNamed("all_economic_indicators") :
        /\ Len(saveLog[k].data) >= 2
        /\ saveLog[k].written

\* ---- C5
\* a direct call met an observation list whose dates all parse
C5_Applies ==
    /\ direct_input # <<>>
    /\ direct_input.status = "ok"
    /\ direct_input.has_observations
    /\ \A k \in 1..Len(direct_input.observations) :
          ToDatetime(direct_input.observations[k].date) # 0
C5_NumericRows ==
    SelectSeq([k \in 1..Len(direct_input.observations) |->
                 [date |-> ToDatetime(direct_input.observations[k].date),
                  value |-> ToNumeric(direct_input.observations[k].value)]],
              LAMBDA r : r.value # NaN)
\* the stable sort by date: the rows of each date in input order, dates ascending
C5_StableSorted(rows) ==
    SelectSeq(rows, LAMBDA r : r.date = 1) \o SelectSeq(rows, LAMBDA r : r.date = 2)
      \o SelectSeq(rows, LAMBDA r : r.date = 3)
C5_Ascending(rows) == \A a, b \in 1..Len(rows) : a < b => rows[a].date <= rows[b].date

\* C5 (as claimed): the normalized dataset is the numeric rows, ascending by date,
\* rows of equal date in their input order.
C5_SortedStable ==
    C5_Applies =>
        /\ resultLog[1].kind = "df" <=> direct_input.observations # <<>>
        /\ DateValue(resultLog[1].rows) = C5_StableSorted(C5_NumericRows)

\* C5 (amended): the normalized dataset is exactly the numeric rows, ascending by
\* date; the order of rows of equal date is not determined.
C5_SortedAscending ==
    C5_Applies =>
        /\ resultLog[1].kind = "df" <=> direct_input.observations # <<>>
        /\ IsPermutation(DateValue(resultLog[1].rows), C5_NumericRows)
        /\ C5_Ascending(resultLog[1].rows)
        /\ \A r \in Range(resultLog[1].rows) : r.series_id = resultLog[1].series_id

\* an unsorted input with a non-numeric value was normalized
C5_Witness ==
    /\ C5_Applies
    /\ direct_input.observations =
         <<RawObs("2020-02-01", "7"), RawObs("2020-01-01", "."), RawObs("2020-01-01", "5")>>
    /\ Len(resultLog[1].rows) = 2

\* ---- C6
\* C6: calls and sleeps alternate: at most one request is in flight, every answered
\* request is followed by one sleep before the next request, and a finished run has
\* slept as often as it has called.
C6_CallsAndSleepsAlternate ==
    /\ inflight \in {0, 1}
    /\ pc = "await" => inflight = 1 /\ calls = sleeps + 1
    /\ pc = "sleep" => inflight = 0 /\ calls = sleeps + 1
    /\ pc \notin {"await", "sleep"} => inflight = 0 /\ calls = sleeps
    /\ calls = Len(fetchLog)
    /\ pc = "done" => sleeps = Len(resultLog)

\* a finished run that made three calls, the last of which failed
C6_Witness ==
    /\ pc = "done"
    /\ calls >= 3
    /\ resultLog[Len(resultLog)].kind = "None"
    /\ sleeps = calls

\* ---- C7
\* the key of the first parsed file in which a key was found, else the fallback
RECURSIVE FirstKey(_, _)
FirstKey(files, fallback) ==
    IF files = <<>> THEN fallback
    ELSE IF Head(files).readable /\ Head(files).api_key # "" THEN Head(files).api_key
    ELSE FirstKey(Tail(files), fallback)

\* C7: the effective key is assigned at most once: a constructor key is never
\* replaced, and without one the key of the first parsed file holding a key stays.
C7_KeyAssignedAtMostOnce ==
    /\ key_writes <= 1
    /\ Truthy(ctor_key) => api_key = ctor_key /\ key_writes = 0
    /\ ~Truthy(ctor_key) => api_key = FirstKey(parseLog, ctor_key)

\* three files parsed, the second and third holding different keys
C7_Witness ==
    /\ Len(parseLog) = 3
    /\ parseLog[1].api_key = ""
    /\ parseLog[2].api_key = "K1"
    /\ parseLog[3].api_key = "K2"
    /\ parseLog[2].readable /\ parseLog[3].readable
    /\ api_key = "K1"

\* ---- C8
\* the dataset handed to the last save_data call
LastSaved == saveLog[Len(saveLog)]
\* the produced datasets that are the first of their display name
FirstOfName == SelectSeq(producedLog,
                         LAMBDA e : \A k \in 1..Len(producedLog) :
                                       producedLog[k].indicator = e.indicator
                                          => producedLog[k].file >= e.file)
C8_RunProducedData == pc = "done" /\ producedLog # <<>>

\* C8 (as claimed): the combined dataset is the concatenation, in file order, of the
\* per-indicator dataset of every processed file, each row tagged with the file's
\* display name, also when two files have the same display name. (Runs in which
\* some per-indicator dataset is empty are C3's matter and left aside.)
C8_CombinedIsAllProduced ==
    (C8_RunProducedData /\ \A k \in 1..Len(producedLog) : producedLog[k].df # <<>>) =>
        /\ LastSaved.filename = "all_economic_indicators"
        /\ LastSaved.data =
             Flatten([k \in 1..Len(producedLog) |->
                        Tag(producedLog[k].df, producedLog[k].indicator)])
        /\ Len(LastSaved.data) = Len(RowsOf([k \in 1..Len(producedLog) |->
                                               [rows |-> producedLog[k].df]]))

\* C8 (amended): the combined dataset holds one dataset per display name, in the
\* order in which the names first produced one: the dataset of the last file of
\* that name that produced one, each row tagged with the name. Its row count is the
\* sum of the row counts of the datasets of the returned mapping.
C8_CombinedIsLastPerName ==
    C8_RunProducedData =>
        /\ LastSaved.filename = "all_economic_indicators"
        /\ LastSaved.data =
             Flatten([k \in 1..Len(FirstOfName) |->
                        Tag(producedLog[Max(ProducedNamed(FirstOfName[k].indicator))].df,
                            FirstOfName[k].indicator)])
        /\ Len(LastSaved.data) = Len(RowsOf([j \in 1..Len(all_data) |->
                                               [rows |-> all_data[j].df]]))

\* a finished run in which two files of the same display name both produced rows
C8_Witness ==
    /\ C8_RunProducedData
    /\ Len(producedLog) = 2
    /\ producedLog[1].indicator = producedLog[2].indicator
    /\ producedLog[1].df # <<>>
    /\ producedLog[2].df # <<>>
    /\ Len(producedLog[1].df) # Len(producedLog[2].df)

\* ---- C9
\* the series fetched for every file whose processing has ended
C9_FetchedAsResolved ==
    \A i \in CompletedFiles : SeriesIdsOf(FetchesOf(i)) = ExpectedIds(bruno_files[i])
\* a step taken at a file with no series id fetches, sleeps, saves and stores nothing
C9_SkipStep ==
    (pc = "next_file" /\ fi <= Len(bruno_files) /\ ExpectedIds(bruno_files[fi]) = <<>>) =>
        /\ fi' = fi + 1
        /\ pc' = "next_file"
        /\ <<calls, sleeps, inflight, fetchLog, resultLog>>'
             = <<calls, sleeps, inflight, fetchLog, resultLog>>
        /\ <<all_data, producedLog, saveLog, disk>>' = <<all_data, producedLog, saveLog, disk>>

\* C9: the series fetched for a file are, in order, the catalog's list for its
\* display name, else the embedded id, else none; a file with none is skipped with
\* no fetch, sleep, save or mapping entry, and the next file is processed.
C9_ResolutionAndSkip == []C9_FetchedAsResolved /\ [][C9_SkipStep]_vars

\* a finished run whose first file was skipped and whose second, a catalog
\* indicator with an embedded id, was fetched
C9_Witness ==
    /\ pc = "done"
    /\ Len(bruno_files) = 2
    /\ ExpectedIds(bruno_files[1]) = <<>>
    /\ bruno_files[2].series_id = "GDP"
    /\ SeriesIdsOf(FetchesOf(2)) = <<"GDP", "GDPC1">>
    /\ FetchesOf(1) = <<>>

\* ---- C10
\* the key in effect once the first n files have been parsed
EffectiveKey(n) ==
    IF Truthy(ctor_key) THEN ctor_key ELSE FirstKey(SubSeq(bruno_files, 1, n), ctor_key)
\* the files among the first n in which a key is found
KeyBearing(n) == {i \in 1..n : bruno_files[i].readable /\ bruno_files[i].api_key # ""}

\* C10: every fetch carries the key in effect once its file has been parsed: the
\* constructor key, else the key of the earliest file so far that holds one; so
\* without a constructor key the fetches of the files before the first key-bearing
\* file carry no key, and all later ones carry that file's key.
C10_FetchCarriesKeyInEffect ==
    \A i \in {fetchLog[k].file : k \in 1..Len(fetchLog)} :
        LET key == EffectiveKey(i)
            bearing == KeyBearing(i)
        IN \A k \in 1..Len(fetchLog) :
              fetchLog[k].file = i =>
                 /\ fetchLog[k].api_key = key
                 /\ (~Truthy(ctor_key) /\ bearing = {}) => ~Truthy(fetchLog[k].api_key)
                 /\ (~Truthy(ctor_key) /\ bearing # {}) =>
                       fetchLog[k].api_key =
                          bruno_files[CHOOSE m \in bearing : \A n \in bearing : m <= n].api_key

\* without a constructor key, a keyless file was fetched before a key-bearing one
C10_Witness ==
    /\ ctor_key = None
    /\ Len(fetchLog) >= 2
    /\ fetchLog[1].file = 1
    /\ fetchLog[1].api_key = None
    /\ fetchLog[Len(fetchLog)].file = 2
    /\ fetchLog[Len(fetchLog)].api_key = "K2"

====
